---- MODULE Spec2Model ----
(***************************************************************************)
(* Grounding DINO: the model hyperparameter schema (config/model.py) and   *)
(* the subtask entry point (entrypoint/grounding_dino.py).                 *)
(*                                                                         *)
(* Two independent components, each with its own specification:            *)
(*   SpecConfig   - the schema, a load with overrides, and its validation  *)
(*   SpecDispatch - main(): discover, parse, look up, invoke               *)
(* Floats are held in hundredths (0.25 is 25), so comparisons are exact.   *)
(***************************************************************************)
EXTENDS Integers, Sequences, FiniteSets, TLC

\* ------------------------------------------------------------------ bounds
\* How many fields one serialized source may override.
MaxOverrides == 2
\* How many tokens a command line may hold.
MaxArgs == 3

\* ------------------------------------------------------------------ values
\* A Python value, tagged with its type; the unused slots hold fillers so
\* that any two values can be compared.
Val(k, n, s, li, ls, b) == [k |-> k, n |-> n, s |-> s, li |-> li, ls |-> ls, b |-> b]
IntV(n)     == Val("int", n, "", <<>>, <<>>, FALSE)
FloatV(n)   == Val("float", n, "", <<>>, <<>>, FALSE)
StrV(s)     == Val("str", 0, s, <<>>, <<>>, FALSE)
BoolV(b)    == Val("bool", 0, "", <<>>, <<>>, b)
ListIntV(l) == Val("list_int", 0, "", l, <<>>, FALSE)
ListStrV(l) == Val("list_str", 0, "", <<>>, l, FALSE)
\* Python's None.
NoneV       == Val("none", 0, "", <<>>, <<>>, FALSE)
\* A keyword argument the call does not pass.
Unset       == Val("unset", 0, "", <<>>, <<>>, FALSE)

IsNum(v) == v.k \in {"int", "float"}
Range(s) == {s[i] : i \in DOMAIN s}

\* ------------------------------------------------------- field descriptors
\* The builders of nvidia_tao_pytorch.config.types: each returns the field's
\* descriptor, the metadata it was given (display metadata left out: it has
\* no effect on validation).
INT_FIELD(value, default_value, valid_min, valid_max, math_cond) ==
    [kind |-> "int", value |-> value, default_value |-> default_value,
     valid_min |-> valid_min, valid_max |-> valid_max,
     valid_options |-> <<>>, math_cond |-> math_cond]

FLOAT_FIELD(value, default_value, valid_min, valid_max, math_cond) ==
    [kind |-> "float", value |-> value, default_value |-> default_value,
     valid_min |-> valid_min, valid_max |-> valid_max,
     valid_options |-> <<>>, math_cond |-> math_cond]

\* valid_options is the list the source joins with ","; no option holds a
\* comma, so the joined string and the list name the same options.
STR_FIELD(value, default_value, valid_options) ==
    [kind |-> "str", value |-> value, default_value |-> default_value,
     valid_min |-> Unset, valid_max |-> Unset,
     valid_options |-> valid_options, math_cond |-> ""]

BOOL_FIELD(value, default_value) ==
    [kind |-> "bool", value |-> value, default_value |-> default_value,
     valid_min |-> Unset, valid_max |-> Unset,
     valid_options |-> <<>>, math_cond |-> ""]

LIST_FIELD(arrList) ==
    [kind |-> "list", value |-> arrList, default_value |-> Unset,
     valid_min |-> Unset, valid_max |-> Unset,
     valid_options |-> <<>>, math_cond |-> ""]

\* The keys of swin_model_dict (model/swin_transformer.py). The schema's
\* default backbone is a Swin model and must be one of its own options.
swin_model_dict == <<"swin_tiny_224_1k">>

\* model.py lines 29-32
SUPPORTED_BACKBONES == swin_model_dict \o <<"resnet_50">>

\* ------------------------------------------- GDINOModelConfig, field by field
\* model.py lines 39-44
pretrained_backbone_path ==
    STR_FIELD(NoneV, StrV(""), <<>>)

\* model.py lines 45-53
backbone ==
    STR_FIELD(StrV("swin_tiny_224_1k"), StrV("swin_tiny_224_1k"), SUPPORTED_BACKBONES)

\* num_queries declared with valid_min one too low.
num_queries_min_zero ==
    INT_FIELD(IntV(900), IntV(900), IntV(0), StrV("inf"), "")

\* model.py lines 54-63
num_queries ==
    INT_FIELD(IntV(900), IntV(900), IntV(1), StrV("inf"), "")

\* model.py lines 64-71
num_feature_levels ==
    INT_FIELD(IntV(4), IntV(4), IntV(1), IntV(5), "")

\* model.py lines 73-81
set_cost_class ==
    FLOAT_FIELD(FloatV(100), FloatV(100), FloatV(0), StrV("inf"), "")

\* model.py lines 82-90
set_cost_bbox ==
    FLOAT_FIELD(FloatV(500), FloatV(500), FloatV(0), StrV("inf"), "")

\* model.py lines 91-99
set_cost_giou ==
    FLOAT_FIELD(FloatV(200), FloatV(200), FloatV(0), StrV("inf"), "")

\* model.py lines 101-109
cls_loss_coef ==
    FLOAT_FIELD(FloatV(200), FloatV(200), FloatV(0), StrV("inf"), "")

\* model.py lines 110-118
bbox_loss_coef ==
    FLOAT_FIELD(FloatV(500), FloatV(500), FloatV(0), StrV("inf"), "")

\* model.py lines 119-127
giou_loss_coef ==
    FLOAT_FIELD(FloatV(200), FloatV(200), FloatV(0), StrV("inf"), "")

\* model.py lines 130-138
num_select ==
    INT_FIELD(IntV(300), IntV(300), IntV(1), Unset, "")

\* model.py lines 139-142
interm_loss_coef ==
    FLOAT_FIELD(FloatV(100), Unset, Unset, Unset, "")

\* model.py lines 143-148
no_interm_box_loss ==
    BOOL_FIELD(BoolV(FALSE), BoolV(FALSE))

\* model.py lines 151-156
pre_norm ==
    BOOL_FIELD(BoolV(FALSE), BoolV(FALSE))

\* model.py lines 157-166
two_stage_type ==
    STR_FIELD(StrV("standard"), StrV("standard"), <<"standard", "no">>)

\* model.py lines 167-173
decoder_sa_type ==
    STR_FIELD(StrV("sa"), StrV("sa"), <<"sa", "ca_label", "ca_content">>)

\* model.py lines 174-179
embed_init_tgt ==
    BOOL_FIELD(BoolV(TRUE), BoolV(TRUE))

\* fix_refpoints_hw declared with the one value its math_cond excludes.
fix_refpoints_hw_zero ==
    INT_FIELD(IntV(0), IntV(0), IntV(-2), StrV("inf"), "!= 0")

\* model.py lines 180-190
fix_refpoints_hw ==
    INT_FIELD(IntV(-1), IntV(-1), IntV(-2), StrV("inf"), "!= 0")

\* model.py lines 191-198
pe_temperatureH ==
    INT_FIELD(IntV(20), IntV(20), IntV(1), StrV("inf"), "")

\* model.py lines 199-206
pe_temperatureW ==
    INT_FIELD(IntV(20), IntV(20), IntV(1), StrV("inf"), "")

\* return_interm_indices declared one index short of num_feature_levels.
return_interm_indices_three ==
    LIST_FIELD(ListIntV(<<1, 2, 3>>))

\* model.py lines 207-211
return_interm_indices ==
    LIST_FIELD(ListIntV(<<1, 2, 3, 4>>))

\* model.py lines 214-219
use_dn ==
    BOOL_FIELD(BoolV(TRUE), BoolV(TRUE))

\* model.py lines 220-227
dn_number ==
    INT_FIELD(IntV(0), IntV(0), IntV(0), StrV("inf"), "")

\* model.py lines 228-235
dn_box_noise_scale ==
    FLOAT_FIELD(FloatV(100), FloatV(100), FloatV(0), StrV("inf"), "")

\* model.py lines 236-244
dn_label_noise_ratio ==
    FLOAT_FIELD(FloatV(50), FloatV(50), FloatV(0), Unset, "")

\* model.py lines 246-251
focal_alpha ==
    FLOAT_FIELD(FloatV(25), Unset, Unset, Unset, "> 0.0")

\* model.py lines 252-257
focal_gamma ==
    FLOAT_FIELD(FloatV(200), Unset, Unset, Unset, "> 0.0")

\* model.py lines 258-262
clip_max_norm ==
    FLOAT_FIELD(FloatV(10), Unset, Unset, Unset, "")

\* model.py lines 263-268
nheads ==
    INT_FIELD(IntV(8), IntV(8), Unset, Unset, "")

\* model.py lines 269-276
dropout_ratio ==
    FLOAT_FIELD(FloatV(0), FloatV(0), FloatV(0), FloatV(100), "")

\* model.py lines 277-283
hidden_dim ==
    INT_FIELD(IntV(256), IntV(256), Unset, Unset, "")

\* model.py lines 284-291
enc_layers ==
    INT_FIELD(IntV(6), IntV(6), IntV(1), Unset, "")

\* model.py lines 292-299
dec_layers ==
    INT_FIELD(IntV(6), IntV(6), IntV(1), Unset, "")

\* model.py lines 300-305
dim_feedforward ==
    INT_FIELD(IntV(2048), Unset, IntV(1), Unset, "")

\* model.py lines 306-311
dec_n_points ==
    INT_FIELD(IntV(4), Unset, IntV(1), Unset, "")

\* model.py lines 312-317
enc_n_points ==
    INT_FIELD(IntV(4), Unset, IntV(1), Unset, "")

\* model.py lines 318-324
aux_loss ==
    BOOL_FIELD(BoolV(TRUE), BoolV(TRUE))

\* model.py lines 325-330
dilation ==
    BOOL_FIELD(BoolV(FALSE), BoolV(FALSE))

\* model.py lines 331-337
train_backbone ==
    BOOL_FIELD(BoolV(TRUE), BoolV(TRUE))

\* model.py lines 340-347
text_encoder_type ==
    STR_FIELD(StrV("bert-base-uncased"), StrV("bert-base-uncased"), <<>>)

\* model.py lines 348-353
max_text_len ==
    INT_FIELD(IntV(256), Unset, IntV(1), Unset, "")

\* model.py lines 356-361
class_embed_bias ==
    BOOL_FIELD(BoolV(FALSE), BoolV(FALSE))

\* log_scale declared with default_value None, like its value.
log_scale_default_none ==
    STR_FIELD(NoneV, NoneV, <<>>)

\* model.py lines 362-371
log_scale ==
    STR_FIELD(NoneV, StrV("none"), <<>>)

\* model.py lines 373-377
loss_types ==
    LIST_FIELD(ListStrV(<<"labels", "boxes">>))

\* model.py lines 378-381
backbone_names ==
    LIST_FIELD(ListStrV(<<"backbone.0", "bert">>))

\* model.py lines 382-386
linear_proj_names ==
    LIST_FIELD(ListStrV(<<"reference_points", "sampling_offsets">>))

GDINOModelConfig ==
    [pretrained_backbone_path |-> pretrained_backbone_path,
     backbone |-> backbone,
     num_queries |-> num_queries,
     num_feature_levels |-> num_feature_levels,
     set_cost_class |-> set_cost_class,
     set_cost_bbox |-> set_cost_bbox,
     set_cost_giou |-> set_cost_giou,
     cls_loss_coef |-> cls_loss_coef,
     bbox_loss_coef |-> bbox_loss_coef,
     giou_loss_coef |-> giou_loss_coef,
     num_select |-> num_select,
     interm_loss_coef |-> interm_loss_coef,
     no_interm_box_loss |-> no_interm_box_loss,
     pre_norm |-> pre_norm,
     two_stage_type |-> two_stage_type,
     decoder_sa_type |-> decoder_sa_type,
     embed_init_tgt |-> embed_init_tgt,
     fix_refpoints_hw |-> fix_refpoints_hw,
     pe_temperatureH |-> pe_temperatureH,
     pe_temperatureW |-> pe_temperatureW,
     return_interm_indices |-> return_interm_indices,
     use_dn |-> use_dn,
     dn_number |-> dn_number,
     dn_box_noise_scale |-> dn_box_noise_scale,
     dn_label_noise_ratio |-> dn_label_noise_ratio,
     focal_alpha |-> focal_alpha,
     focal_gamma |-> focal_gamma,
     clip_max_norm |-> clip_max_norm,
     nheads |-> nheads,
     dropout_ratio |-> dropout_ratio,
     hidden_dim |-> hidden_dim,
     enc_layers |-> enc_layers,
     dec_layers |-> dec_layers,
     dim_feedforward |-> dim_feedforward,
     dec_n_points |-> dec_n_points,
     enc_n_points |-> enc_n_points,
     aux_loss |-> aux_loss,
     dilation |-> dilation,
     train_backbone |-> train_backbone,
     text_encoder_type |-> text_encoder_type,
     max_text_len |-> max_text_len,
     class_embed_bias |-> class_embed_bias,
     log_scale |-> log_scale,
     loss_types |-> loss_types,
     backbone_names |-> backbone_names,
     linear_proj_names |-> linear_proj_names]

FieldNames == DOMAIN GDINOModelConfig

VARIABLES
    schema,       \* the descriptors of GDINOModelConfig, by field name
    cfgPc,        \* "declared", "loaded", "validated" or "ConfigValidationError"
    overrides,    \* the serialized source: field name -> value the user set
    cfg,          \* the configuration record: field name -> effective value
    violations    \* what the validator reported: pairs <<field, rule>>

cfgVars == <<schema, cfgPc, overrides, cfg, violations>>

\* The state of the entry point, grounding_dino.py.
VARIABLES
    pc,             \* the statement of main() about to run, or "done"/"error"
    scanned,        \* what the scan of the scripts namespace found
    subtasks,       \* main's local: the registry, name -> handler
    argv,           \* the command line main was started with
    args,           \* main's local: the parsed known arguments
    unknown_args,   \* main's local: the tokens the parser did not consume
    parserSubtasks, \* the registry command_line_parser was given
    launched,       \* what launch was given
    handler,        \* the handler the lookup selected
    invocations,    \* the handler invocations so far, in order
    handlerStatus,  \* the status the invoked handler ended with
    error,          \* the error the run ended with, "" if none
    validNames,     \* the names a SubtaskNotFoundError lists
    exitStatus,     \* the process's exit status
    trace           \* the steps executed so far, in order

dispVars == <<pc, scanned, subtasks, argv, args, unknown_args, parserSubtasks,
              launched, handler, invocations, handlerStatus, error, validNames,
              exitStatus, trace>>

vars == <<schema, cfgPc, overrides, cfg, violations,
          pc, scanned, subtasks, argv, args, unknown_args, parserSubtasks,
          launched, handler, invocations, handlerStatus, error, validNames,
          exitStatus, trace>>

\* ------------------------------------------------------ the consuming validator
Rules == {"valid_min", "valid_max", "math_cond", "valid_options"}

\* The two predicate strings the schema uses, evaluated on a number
\* (a float in hundredths, so 0.0 is 0).
MathCondHolds(math_cond, n) ==
    CASE math_cond = "!= 0"  -> n # 0
      [] math_cond = "> 0.0" -> n > 0
      [] OTHER               -> TRUE

\* Does value v break rule r of descriptor d?  valid_max "inf" or absent
\* bounds nothing; None is the unset value of an optional field.
RuleBroken(d, r, v) ==
    CASE r = "valid_min" ->
            IsNum(d.valid_min) /\ IsNum(v) /\ v.n < d.valid_min.n
      [] r = "valid_max" ->
            IsNum(d.valid_max) /\ IsNum(v) /\ v.n > d.valid_max.n
      [] r = "math_cond" ->
            d.math_cond # "" /\ IsNum(v) /\ ~MathCondHolds(d.math_cond, v.n)
      [] r = "valid_options" ->
            d.valid_options # <<>> /\ v.k = "str" /\ v.s \notin Range(d.valid_options)

\* The one cross-field rule: len(return_interm_indices) == num_feature_levels.
CrossFieldBroken(c) ==
    Len(c.return_interm_indices.li) # c.num_feature_levels.n

\* Every violation of record c against descriptors sch, by field and rule.
Validate(sch, c) ==
    {fr \in FieldNames \X Rules : RuleBroken(sch[fr[1]], fr[2], c[fr[1]])}
    \cup (IF CrossFieldBroken(c)
          THEN {<<"return_interm_indices", "num_feature_levels">>}
          ELSE {})

\* ------------------------------------------------------------------ the loader
\* The effective value of one field: the user's, else the declared
\* default_value, else (no default_value declared) the declared value.
Effective(d, f, ov) ==
    IF f \in DOMAIN ov THEN ov[f]
    ELSE IF d.default_value # Unset THEN d.default_value
    ELSE d.value

LoadRecord(sch, ov) == [f \in FieldNames |-> Effective(sch[f], f, ov)]

\* ------------------------------------------------- values a user may supply
Prefix(n) == [i \in 1..n |-> i]

Num(d, n) == IF d.kind = "float" THEN FloatV(n) ELSE IntV(n)

\* Values around each declared rule: both sides of every bound, every option
\* and one that is none of them, the excluded point of a math_cond.
Candidates(f, d) ==
    CASE f = "return_interm_indices" ->
            {ListIntV(Prefix(n)) : n \in 0..(GDINOModelConfig.num_feature_levels.valid_max.n + 1)}
      [] d.kind = "list" /\ f # "return_interm_indices" ->
            {ListStrV(Tail(d.value.ls))}
      [] d.kind = "bool" -> {BoolV(~d.value.b)}
      [] d.kind = "str" ->
            {StrV(o) : o \in Range(d.valid_options)} \cup {StrV("unsupported")}
      [] d.kind \in {"int", "float"} ->
            IF d.kind = "int" /\ IsNum(d.valid_min) /\ IsNum(d.valid_max)
            THEN {IntV(n) : n \in (d.valid_min.n - 1)..(d.valid_max.n + 1)}
            ELSE (IF IsNum(d.valid_min)
                  THEN {Num(d, d.valid_min.n - 1), Num(d, d.valid_min.n)} ELSE {})
                 \cup (IF IsNum(d.valid_max)
                       THEN {Num(d, d.valid_max.n), Num(d, d.valid_max.n + 1)} ELSE {})
                 \cup (IF d.math_cond # "" THEN {Num(d, 0)} ELSE {})
                 \cup (IF ~IsNum(d.valid_min) /\ ~IsNum(d.valid_max) /\ d.math_cond = ""
                       THEN {Num(d, d.value.n + 1)} ELSE {})

NoOverrides == [f \in {} |-> NoneV]

\* ------------------------------------------------------------ config actions
InitConfig ==
    /\ schema = GDINOModelConfig
    /\ cfgPc = "declared"
    /\ overrides = NoOverrides
    /\ cfg = NoOverrides
    /\ violations = {}

\* The user sets one more field in the serialized source.
SupplyOverride ==
    /\ cfgPc = "declared"
    /\ Cardinality(DOMAIN overrides) < MaxOverrides
    /\ \E f \in FieldNames \ DOMAIN overrides :
         \E v \in Candidates(f, schema[f]) :
            overrides' = [g \in DOMAIN overrides \cup {f} |->
                             IF g = f THEN v ELSE overrides[g]]
    /\ UNCHANGED <<schema, cfgPc, cfg, violations>>
    /\ UNCHANGED dispVars

\* The record is constructed from the serialized source.
Load ==
    /\ cfgPc = "declared"
    /\ cfg' = LoadRecord(schema, overrides)
    /\ cfgPc' = "loaded"
    /\ UNCHANGED <<schema, overrides, violations>>
    /\ UNCHANGED dispVars

\* The validator walks the record; it reports, and changes no value.
RunValidator ==
    /\ cfgPc = "loaded"
    /\ violations' = Validate(schema, cfg)
    /\ cfgPc' = IF violations' = {} THEN "validated" ELSE "ConfigValidationError"
    /\ UNCHANGED <<schema, overrides, cfg>>
    /\ UNCHANGED dispVars

NextConfig == SupplyOverride \/ Load \/ RunValidator

ConfigDone == cfgPc \in {"validated", "ConfigValidationError"}

\* ============================================================ the dispatcher
\* The modules the scripts package may hold, and the tokens of a command line.
SubtaskNames == {"train", "evaluate", "export"}
Flags        == {"--epoch"}
Tokens       == SubtaskNames \cup Flags \cup {"bogus", "5"}
ArgLists     == UNION {[1..n -> Tokens] : n \in 0..MaxArgs}

\* The statuses a handler may end with: 0 is success.
HandlerStatuses == {0, 1, 2}

NoRegistry == [n \in {} |-> ""]
NoArgs     == [subtask |-> ""]
NotLaunched == [args |-> NoArgs, unknown_args |-> <<>>, subtasks |-> NoRegistry]

\* The handler of a subtask: its module in the scripts package.
Handler(name) == <<"scripts", name>>

Registry(names) == [n \in names |-> Handler(n)]

\* A call's outcome: a returned value, or a raised error.
Returned(v) == [raised |-> FALSE, error |-> "", value |-> v]
Raised(e)   == [raised |-> TRUE, error |-> e, value |-> NoRegistry]

\* core.entrypoint.get_subtasks: scan the package for subtask handlers;
\* an unreachable or empty namespace is fatal.
get_subtasks(scan) ==
    IF ~scan.reachable \/ scan.names = {}
    THEN Raised("SubtaskDiscoveryError")
    ELSE Returned(Registry(scan.names))

\* get_subtask_list catching the failure and returning an empty registry.
get_subtask_list_default(scan) ==
    IF get_subtasks(scan).raised THEN Returned(NoRegistry) ELSE get_subtasks(scan)

\* grounding_dino.py lines 22-24: the scan's outcome, passed through.
get_subtask_list(scan) == get_subtasks(scan)

\* core.entrypoint.command_line_parser: the first positional token is the
\* subtask; every other token, in order, is left unconsumed.
IsPositional(tok) == tok \notin Flags

HasPositional(av) == \E i \in DOMAIN av : IsPositional(av[i])

FirstPositional(av) ==
    CHOOSE i \in DOMAIN av :
        IsPositional(av[i]) /\ \A j \in 1..(i - 1) : ~IsPositional(av[j])

RemoveAt(s, i) == SubSeq(s, 1, i - 1) \o SubSeq(s, i + 1, Len(s))

command_line_parser(av) ==
    [args |-> [subtask |-> av[FirstPositional(av)]],
     unknown_args |-> RemoveAt(av, FirstPositional(av))]

\* main parsing the command line before it has discovered the subtasks.
main_reordered == <<"command_line_parser", "get_subtask_list", "launch">>

\* main(), lines 37-43: its three statements in order.
main == <<"get_subtask_list", "command_line_parser", "launch">>

StatementAfter(stmt) ==
    LET i == CHOOSE j \in DOMAIN main : main[j] = stmt
    IN  IF i < Len(main) THEN main[i + 1] ELSE "done"

\* main scanning the namespace anew for the parser.
ParserArgsRescan == Registry(SubtaskNames)

\* Line 40: the registry main hands to command_line_parser.
ParserArgs == subtasks

\* main handing launch the unknown arguments less their first token.
LaunchArgsDropsToken ==
    [args |-> args,
     unknown_args |-> IF unknown_args = <<>> THEN <<>> ELSE Tail(unknown_args),
     subtasks |-> subtasks]

\* main scanning the namespace anew for launch.
LaunchArgsRescan ==
    [args |-> args, unknown_args |-> unknown_args,
     subtasks |-> Registry(SubtaskNames)]

\* Line 43: what main hands to launch.
LaunchArgs == [args |-> args, unknown_args |-> unknown_args, subtasks |-> subtasks]

\* main catching whatever the call raises and ending normally.
ExitStatusSwallowed(status) == 0

\* Lines 43-47: nothing in main catches or replaces the status a call ends
\* with; it is the process's exit status.
ExitStatus(status) == status

InitDispatch ==
    /\ pc = main[1]
    /\ scanned = [reachable |-> TRUE, names |-> {}]
    /\ subtasks = NoRegistry
    /\ argv = <<>>
    /\ args = NoArgs
    /\ unknown_args = <<>>
    /\ parserSubtasks = NoRegistry
    /\ launched = NotLaunched
    /\ handler = <<>>
    /\ invocations = <<>>
    /\ handlerStatus = 0
    /\ error = ""
    /\ validNames = {}
    /\ exitStatus = 0
    /\ trace = <<>>

\* Line 37: subtasks = get_subtask_list()
Discover ==
    /\ pc = "get_subtask_list"
    /\ \E reachable \in BOOLEAN, names \in SUBSET SubtaskNames :
         LET scan == [reachable |-> reachable,
                      names |-> IF reachable THEN names ELSE {}]
             res  == get_subtask_list(scan)
         IN  /\ scanned' = scan
             /\ trace' = Append(trace, "discover")
             /\ IF res.raised
                THEN /\ pc' = "error"
                     /\ error' = res.error
                     /\ exitStatus' = ExitStatus(1)
                     /\ UNCHANGED subtasks
                ELSE /\ pc' = StatementAfter("get_subtask_list")
                     /\ subtasks' = res.value
                     /\ UNCHANGED <<error, exitStatus>>
    /\ UNCHANGED <<argv, args, unknown_args, parserSubtasks, launched, handler,
                   invocations, handlerStatus, validNames>>
    /\ UNCHANGED cfgVars

\* Line 40: args, unknown_args = command_line_parser(parser, subtasks)
Parse ==
    /\ pc = "command_line_parser"
    /\ \E av \in ArgLists :
         /\ argv' = av
         /\ parserSubtasks' = ParserArgs
         /\ trace' = Append(trace, "parse")
         /\ IF HasPositional(av)
            THEN /\ args' = command_line_parser(av).args
                 /\ unknown_args' = command_line_parser(av).unknown_args
                 /\ pc' = StatementAfter("command_line_parser")
                 /\ UNCHANGED <<error, exitStatus>>
            ELSE /\ pc' = "error"
                 /\ error' = "UsageError"
                 /\ exitStatus' = ExitStatus(2)
                 /\ UNCHANGED <<args, unknown_args>>
    /\ UNCHANGED <<scanned, subtasks, launched, handler, invocations,
                   handlerStatus, validNames>>
    /\ UNCHANGED cfgVars

\* Line 43, entering launch: the subtask name is looked up in the registry.
Lookup ==
    /\ pc = "launch"
    /\ launched' = LaunchArgs
    /\ trace' = Append(trace, "lookup")
    /\ IF launched'.args.subtask \in DOMAIN launched'.subtasks
       THEN /\ handler' = launched'.subtasks[launched'.args.subtask]
            /\ pc' = "launch:invoke"
            /\ UNCHANGED <<error, validNames, exitStatus>>
       ELSE /\ pc' = "error"
            /\ error' = "SubtaskNotFoundError"
            /\ validNames' = DOMAIN launched'.subtasks
            /\ exitStatus' = ExitStatus(1)
            /\ UNCHANGED handler
    /\ UNCHANGED <<scanned, subtasks, argv, args, unknown_args, parserSubtasks,
                   invocations, handlerStatus>>
    /\ UNCHANGED cfgVars

\* launch hands the parsed arguments and the unknown remainder to the handler.
Invoke ==
    /\ pc = "launch:invoke"
    /\ invocations' = Append(invocations,
                             [handler |-> handler, args |-> launched.args,
                              unknown_args |-> launched.unknown_args])
    /\ trace' = Append(trace, "invoke")
    /\ pc' = "launch:running"
    /\ UNCHANGED <<scanned, subtasks, argv, args, unknown_args, parserSubtasks,
                   launched, handler, handlerStatus, error, validNames, exitStatus>>
    /\ UNCHANGED cfgVars

\* The handler ends; its status comes back through launch and main.
HandlerReturn ==
    /\ pc = "launch:running"
    /\ \E status \in HandlerStatuses :
         /\ handlerStatus' = status
         /\ exitStatus' = ExitStatus(status)
         /\ pc' = IF status = 0 THEN StatementAfter("launch") ELSE "error"
         /\ error' = IF status = 0 THEN "" ELSE "SubtaskExecutionError"
    /\ trace' = Append(trace, "return")
    /\ UNCHANGED <<scanned, subtasks, argv, args, unknown_args, parserSubtasks,
                   launched, handler, invocations, validNames>>
    /\ UNCHANGED cfgVars

NextDispatch == Discover \/ Parse \/ Lookup \/ Invoke \/ HandlerReturn

Terminal == pc \in {"done", "error"}

\* ------------------------------------------------------------ specifications
Init == InitConfig /\ InitDispatch

SpecConfig == Init /\ [][NextConfig]_vars

SpecDispatch == Init /\ [][NextDispatch]_vars

\* main is one synchronous call chain: a step that can run does run.
FairSpecDispatch ==
    SpecDispatch /\ WF_vars(NextDispatch)

\* ==================================================================== claims
Did(step) == step \in Range(trace)

Requested == argv[FirstPositional(argv)]

\* C1: in the schema as declared, every field's declared value satisfies the
\* field's own declared rules: valid_min <= value <= valid_max (valid_max
\* "inf" or absent bounding nothing), its math_cond where one is given, and
\* membership in valid_options where they are given.
C1_DeclaredValuesSatisfyRules ==
    /\ \A f \in FieldNames, r \in Rules : ~RuleBroken(schema[f], r, schema[f].value)
    /\ schema.fix_refpoints_hw.value.n # 0
    /\ schema.focal_alpha.value.n > 0
    /\ schema.focal_gamma.value.n > 0
    /\ schema.backbone.value.s \in Range(schema.backbone.valid_options)
    /\ schema.two_stage_type.value.s \in {"standard", "no"}
    /\ schema.decoder_sa_type.value.s \in {"sa", "ca_label", "ca_content"}

C1_Witness ==
    /\ cfgPc = "declared"
    /\ schema.fix_refpoints_hw.math_cond = "!= 0"
    /\ schema.fix_refpoints_hw.value = IntV(-1)
    /\ schema.dropout_ratio.valid_max = FloatV(100)
    /\ schema.decoder_sa_type.valid_options # <<>>

C3_CrossFieldLength ==
    ConfigDone =>
        /\ cfgPc = "validated" =>
              Len(cfg.return_interm_indices.li) = cfg.num_feature_levels.n
        /\ Len(cfg.return_interm_indices.li) # cfg.num_feature_levels.n =>
              /\ cfgPc = "ConfigValidationError"
              /\ <<"return_interm_indices", "num_feature_levels">> \in violations
        /\ overrides = NoOverrides =>
              /\ cfgPc = "validated"
              /\ cfg.num_feature_levels = IntV(4)
              /\ cfg.return_interm_indices = ListIntV(<<1, 2, 3, 4>>)
        /\ (cfg.num_feature_levels = IntV(4)
              /\ cfg.return_interm_indices = ListIntV(<<1, 2, 3>>)) =>
              cfgPc = "ConfigValidationError"

C3_Witness ==
    /\ cfgPc = "ConfigValidationError"
    /\ cfg.num_feature_levels = IntV(4)
    /\ cfg.return_interm_indices = ListIntV(<<1, 2, 3>>)
    /\ violations = {<<"return_interm_indices", "num_feature_levels">>}

\* C4: a value that breaks its field's declared rule is never accepted,
\* clamped or coerced: the record does not validate, the report names the
\* field and the rule, and the record still holds the value as loaded. So a
\* num_queries below 1, and a num_feature_levels below 1 or above 5, are
\* reported under valid_min or valid_max, and a two_stage_type that is
\* neither "standard" nor "no" under valid_options.
C4_ViolationsRejected ==
    ConfigDone =>
        /\ cfg = LoadRecord(schema, overrides)
        /\ \A f \in DOMAIN overrides : cfg[f] = overrides[f]
        /\ \A f \in FieldNames, r \in Rules :
              RuleBroken(schema[f], r, cfg[f]) =>
                  cfgPc = "ConfigValidationError" /\ <<f, r>> \in violations
        /\ cfg.num_queries.n < 1 =>
              cfgPc = "ConfigValidationError"
              /\ <<"num_queries", "valid_min">> \in violations
        /\ cfg.num_feature_levels.n < 1 =>
              cfgPc = "ConfigValidationError"
              /\ <<"num_feature_levels", "valid_min">> \in violations
        /\ cfg.num_feature_levels.n > 5 =>
              cfgPc = "ConfigValidationError"
              /\ <<"num_feature_levels", "valid_max">> \in violations
        /\ (cfg.two_stage_type.k = "str" /\ cfg.two_stage_type.s \notin {"standard", "no"}) =>
              cfgPc = "ConfigValidationError"
              /\ <<"two_stage_type", "valid_options">> \in violations

C4_Witness ==
    /\ cfgPc = "ConfigValidationError"
    /\ cfg.num_feature_levels = IntV(6)
    /\ cfg.two_stage_type = StrV("unsupported")
    /\ <<"num_feature_levels", "valid_max">> \in violations
    /\ <<"two_stage_type", "valid_options">> \in violations

\* C5: when the first positional token of the command line is a registered
\* subtask name, exactly that subtask's handler is invoked, with the parsed
\* arguments and with every other token of the command line, in order, none
\* added or dropped; [evaluate, --epoch, 5] under {train, evaluate, export}
\* invokes evaluate with [--epoch, 5].
C5_DispatchForwards ==
    /\ invocations # <<>> =>
          /\ Len(invocations) = 1
          /\ HasPositional(argv)
          /\ Requested \in DOMAIN subtasks
          /\ invocations[1].handler = Handler(Requested)
          /\ invocations[1].args = [subtask |-> Requested]
          /\ invocations[1].unknown_args = RemoveAt(argv, FirstPositional(argv))
          /\ Len(invocations[1].unknown_args) = Len(argv) - 1
    /\ (Terminal /\ HasPositional(argv) /\ Requested \in DOMAIN subtasks) =>
          Len(invocations) = 1
    /\ (Terminal /\ argv = <<"evaluate", "--epoch", "5">>
          /\ DOMAIN subtasks = {"train", "evaluate", "export"}) =>
          invocations = << [handler |-> Handler("evaluate"),
                            args |-> [subtask |-> "evaluate"],
                            unknown_args |-> <<"--epoch", "5">>] >>

C5_Witness ==
    /\ pc = "done"
    /\ argv = <<"evaluate", "--epoch", "5">>
    /\ DOMAIN subtasks = {"train", "evaluate", "export"}
    /\ invocations[1].handler = Handler("evaluate")
    /\ invocations[1].unknown_args = <<"--epoch", "5">>

\* C6: when the requested subtask name is not in the registry, no handler is
\* ever invoked, and the run ends in a SubtaskNotFoundError that lists the
\* registry's names, with a nonzero exit status.
C6_UnknownSubtask ==
    (HasPositional(argv) /\ Requested \notin DOMAIN subtasks) =>
        /\ invocations = <<>>
        /\ ~Did("invoke")
        /\ Terminal =>
              /\ pc = "error"
              /\ error = "SubtaskNotFoundError"
              /\ validNames = DOMAIN subtasks
              /\ exitStatus # 0

C6_Witness ==
    /\ pc = "error"
    /\ error = "SubtaskNotFoundError"
    /\ argv = <<"bogus">>
    /\ validNames = {"train", "evaluate", "export"}
    /\ invocations = <<>>

\* C7: when the scan of the scripts namespace finds no handler, or cannot
\* reach the namespace, the run ends at once in a SubtaskDiscoveryError: no
\* command line is parsed, nothing is looked up or launched.
C7_EmptyDiscoveryFatal ==
    (Did("discover") /\ (~scanned.reachable \/ scanned.names = {})) =>
        /\ pc = "error"
        /\ error = "SubtaskDiscoveryError"
        /\ exitStatus # 0
        /\ trace = <<"discover">>
        /\ parserSubtasks = NoRegistry /\ argv = <<>>
        /\ launched = NotLaunched /\ invocations = <<>>

C7_Witness ==
    /\ pc = "error"
    /\ error = "SubtaskDiscoveryError"
    /\ scanned.reachable /\ scanned.names = {}
    /\ trace = <<"discover">>

\* C8: a run is one linear call chain: the steps executed are always a prefix
\* of discover, parse, lookup, invoke, return (none before its predecessor,
\* none twice), a run that has ended has either run the whole chain or ended
\* in an error, and every run ends.
CallChain == <<"discover", "parse", "lookup", "invoke", "return">>

IsPrefix(s, full) == Len(s) <= Len(full) /\ s = SubSeq(full, 1, Len(s))

C8_LinearCallChain ==
    /\ [](IsPrefix(trace, CallChain))
    /\ [](Terminal => (pc = "error" /\ error # "") \/ (pc = "done" /\ trace = CallChain))
    /\ <>Terminal

C8_Witness ==
    /\ pc = "done"
    /\ trace = CallChain
    /\ error = ""

\* C9: the outcome of a run whose handler was invoked is the handler's own
\* status: a failing handler ends the run in an error with the handler's
\* nonzero status, a succeeding one ends it with exit status 0; the handler is
\* invoked once, never again.
C9_HandlerFailurePropagates ==
    /\ Len(invocations) <= 1
    /\ Did("return") =>
          /\ Terminal
          /\ Len(invocations) = 1
          /\ exitStatus = handlerStatus
          /\ handlerStatus # 0 =>
                pc = "error" /\ error = "SubtaskExecutionError" /\ exitStatus # 0
          /\ handlerStatus = 0 => pc = "done" /\ error = "" /\ exitStatus = 0

C9_Witness ==
    /\ pc = "error"
    /\ error = "SubtaskExecutionError"
    /\ handlerStatus = 2
    /\ exitStatus = 2
    /\ Len(invocations) = 1

\* C10: the registry is built once, by the discovery step, and is read-only
\* afterwards: main's registry stays what the scan produced, and the parser
\* and launch are each given that same registry.
Count(s, x) == Cardinality({i \in DOMAIN s : s[i] = x})

C10_RegistryBuiltOnce ==
    /\ Count(trace, "discover") <= 1
    /\ ~Did("discover") => subtasks = NoRegistry
    /\ (Did("discover") /\ error # "SubtaskDiscoveryError") =>
          subtasks = Registry(scanned.names)
    /\ Did("parse") => parserSubtasks = subtasks
    /\ Did("lookup") => launched.subtasks = subtasks /\ launched.subtasks = parserSubtasks

C10_Witness ==
    /\ pc = "done"
    /\ scanned.names = {"train", "export"}
    /\ subtasks = Registry({"train", "export"})
    /\ parserSubtasks = subtasks
    /\ launched.subtasks = subtasks
====
